---- MODULE Spec2Model ----
(***************************************************************************)
(* Model of utm-gallery-get.py: gallery discovery (structured data with an *)
(* anchor-tag fallback), the selection prompt, and the install pipeline.   *)
(*                                                                         *)
(* Strings are sequences of tokens.  A token is a run of characters that   *)
(* the program never splits ("https:", "/", "gallery", ".zip", ...), so    *)
(* the character-level tests of the source (startswith, endswith, strip,   *)
(* substring) are the same tests on token sequences.                       *)
(***************************************************************************)
EXTENDS Integers, Sequences, FiniteSets, TLC

\* ------------------------------------------------------------------ strings

GALLERY_BASE == <<"https:", "/", "/", "mac.getutm.app", "/", "gallery", "/">>

None == <<"<None>">>

StartsWith(s, p) == Len(s) >= Len(p) /\ SubSeq(s, 1, Len(p)) = p

EndsWith(s, p) == Len(s) >= Len(p) /\ SubSeq(s, Len(s) - Len(p) + 1, Len(s)) = p

Contains(s, p) == \E i \in 1..(Len(s) - Len(p) + 1) : SubSeq(s, i, i + Len(p) - 1) = p

RECURSIVE RStrip(_, _)
RStrip(s, ch) == IF s # <<>> /\ s[Len(s)] = ch THEN RStrip(SubSeq(s, 1, Len(s) - 1), ch) ELSE s

RECURSIVE LStrip(_, _)
LStrip(s, ch) == IF s # <<>> /\ Head(s) = ch THEN LStrip(Tail(s), ch) ELSE s

Strip(s, ch) == LStrip(RStrip(s, ch), ch)

LowerTok(t) == CASE t = ".ZIP" -> ".zip"
                 [] t = "Q" -> "q"
                 [] OTHER -> t

Lower(s) == [i \in 1..Len(s) |-> LowerTok(s[i])]

\* urlparse(u).scheme is non-empty: the only token with a colon is the scheme
HasScheme(u) == u # <<>> /\ Head(u) = "https:"

\* str.startswith("http") on the characters of the first token
StartsWithHttp(s) == s # <<>> /\ Head(s) \in {"https:", "httpx"}

RECURSIVE LastSlash(_)
LastSlash(s) == IF s = <<>> THEN 0
                ELSE IF s[Len(s)] = "/" THEN Len(s)
                ELSE LastSlash(SubSeq(s, 1, Len(s) - 1))

\* urljoin(base, url) for an absolute base  scheme://host/path
UrlJoin(base, url) ==
    IF url = <<>> THEN base
    ELSE IF HasScheme(url) THEN url
    ELSE IF Len(url) >= 2 /\ url[1] = "/" /\ url[2] = "/" THEN <<base[1]>> \o url
    ELSE IF Head(url) = "/" THEN SubSeq(base, 1, 4) \o url
    ELSE IF Len(base) <= 4 THEN base \o <<"/">> \o url
    ELSE SubSeq(base, 1, LastSlash(base)) \o url

\* os.path.basename(urlparse(page).path)
Basename(page) == IF Len(page) <= 4 THEN <<>>
                  ELSE SubSeq(page, LastSlash(page) + 1, Len(page))

\* ---------------------------------------------------------------- JSON tree

JStr(s) == [t |-> "str", s |-> s, n |-> 0, k |-> <<>>, c |-> <<>>]
JNum(n) == [t |-> "num", s |-> <<>>, n |-> n, k |-> <<>>, c |-> <<>>]
JNull == [t |-> "null", s |-> <<>>, n |-> 0, k |-> <<>>, c |-> <<>>]
JList(c) == [t |-> "list", s |-> <<>>, n |-> 0, k |-> <<>>, c |-> c]
JDict(k, c) == [t |-> "dict", s |-> <<>>, n |-> 0, k |-> k, c |-> c]

HasKey(node, key) == \E i \in 1..Len(node.k) : node.k[i] = key

\* dict.get(key): None when the key is absent
Get(node, key) == IF HasKey(node, key)
                  THEN node.c[CHOOSE i \in 1..Len(node.k) : node.k[i] = key]
                  ELSE JNull

Truthy(v) == CASE v.t = "str" -> v.s # <<>>
               [] v.t = "num" -> v.n # 0
               [] v.t = "null" -> FALSE
               [] OTHER -> v.c # <<>>

PyOr(a, b) == IF Truthy(a) THEN a ELSE b

RECURSIVE FlatMap(_, _)
RECURSIVE gather_zip_links(_)
gather_zip_links(node) ==
    IF node.t = "str"
    THEN IF EndsWith(Lower(node.s), <<".zip">>) THEN <<node.s>> ELSE <<>>
    ELSE IF node.t \in {"dict", "list"} THEN FlatMap(node.c, 1)
    ELSE <<>>

FlatMap(c, i) == IF i > Len(c) THEN <<>> ELSE gather_zip_links(c[i]) \o FlatMap(c, i + 1)

\* ----------------------------------------------- structured-data extraction

\* items is the insertion-ordered dict of visit: a sequence of entries whose
\* key is the entry's page with the trailing slashes stripped
ItemIndex(items, norm_page) ==
    IF \E i \in 1..Len(items) : RStrip(items[i].page, "/") = norm_page
    THEN CHOOSE i \in 1..Len(items) : RStrip(items[i].page, "/") = norm_page
    ELSE 0

\* zips of a dict node: the "downloads" field, else the alternate fields
AltKeys == <<"downloadUrl", "downloadURL", "directLink", "file", "files">>

RECURSIVE AltZips(_, _)
AltZips(node, i) ==
    IF i > Len(AltKeys) THEN <<>>
    ELSE (IF HasKey(node, AltKeys[i]) THEN gather_zip_links(Get(node, AltKeys[i])) ELSE <<>>)
         \o AltZips(node, i + 1)

NodeZips(node) ==
    LET zips == IF HasKey(node, "downloads") THEN gather_zip_links(Get(node, "downloads")) ELSE <<>>
    IN IF zips = <<>> THEN AltZips(node, 1) ELSE zips

NodeSlug(node) == PyOr(Get(node, "path"), PyOr(Get(node, "url"), Get(node, "slug")))

\* the page of a node whose slug is truthy; None for a slug that is no string
NodePage(slug) ==
    IF slug.t = "str"
    THEN IF StartsWithHttp(slug.s) THEN slug.s ELSE UrlJoin(GALLERY_BASE, LStrip(slug.s, "/"))
    ELSE None

NodeTitle(node, page) ==
    LET t == PyOr(Get(node, "title"), Get(node, "name"))
    IN IF Truthy(t) THEN t.s ELSE Basename(page)

\* MergeItem with the links of a later object replacing the earlier ones
MergeItem_Replace(items, node, page, zips) ==
    LET i == ItemIndex(items, RStrip(page, "/"))
    IN IF i # 0
       THEN [items EXCEPT ![i].zips = zips]
       ELSE Append(items, [title |-> NodeTitle(node, page), page |-> page, zips |-> zips])

MergeItem(items, node, page, zips) ==
    LET i == ItemIndex(items, RStrip(page, "/"))
    IN IF i # 0
       THEN [items EXCEPT ![i].zips = @ \o zips]
       ELSE Append(items, [title |-> NodeTitle(node, page), page |-> page, zips |-> zips])

VisitNode(items, node) ==
    LET slug == NodeSlug(node)
        zips == NodeZips(node)
    IN IF Truthy(slug) /\ zips # <<>>
       THEN LET page == NodePage(slug)
            IN IF page # None /\ StartsWith(page, GALLERY_BASE)
               THEN MergeItem(items, node, page, zips)
               ELSE items
       ELSE items

RECURSIVE visit(_, _)
RECURSIVE VisitChildren(_, _, _)
visit(items, node) ==
    IF node.t = "dict" THEN VisitChildren(VisitNode(items, node), node.c, 1)
    ELSE IF node.t = "list" THEN VisitChildren(items, node.c, 1)
    ELSE items

VisitChildren(items, c, i) ==
    IF i > Len(c) THEN items ELSE VisitChildren(visit(items, c[i]), c, i + 1)

\* order-preserving removal of repeated elements
RECURSIVE Unique(_, _)
Unique(s, acc) ==
    IF s = <<>> THEN acc
    ELSE Unique(Tail(s), IF \E i \in 1..Len(acc) : acc[i] = Head(s) THEN acc ELSE Append(acc, Head(s)))

ResolveLink(page, link) == IF ~HasScheme(link) THEN UrlJoin(page, link) ELSE link

NormalizeItem(item) ==
    [item EXCEPT !.zips = Unique([i \in 1..Len(item.zips) |-> ResolveLink(item.page, item.zips[i])], <<>>)]

\* An HTML document is [script, data, anchors, headings]: script tells how
\* the __NEXT_DATA__ element reads ("absent", "empty", "malformed", "json"),
\* data is what json.loads returns for it, anchors the href of each <a href>
\* in document order, headings the text of each h1/h2 in document order.
extract_from_next_data(index_html) ==
    IF index_html.script \in {"absent", "empty"} THEN <<>>
    ELSE IF index_html.script = "malformed" THEN <<>>
    ELSE LET items == visit(<<>>, index_html.data)
         IN [i \in 1..Len(items) |-> NormalizeItem(items[i])]

\* ------------------------------------------------------ anchor-tag fallback

KeepHref(href) ==
    \/ Contains(href, <<"/", "gallery", "/">>)
    \/ EndsWith(Strip(href, "/"), <<".html">>)
    \/ EndsWith(Strip(href, "/"), <<"/">>)

RECURSIVE ScrapeLinks(_, _)
ScrapeLinks(anchors, i) ==
    IF i > Len(anchors) THEN <<>>
    ELSE LET href == anchors[i]
             full == UrlJoin(GALLERY_BASE, href)
         IN (IF KeepHref(href) /\ StartsWith(full, GALLERY_BASE) THEN <<full>> ELSE <<>>)
            \o ScrapeLinks(anchors, i + 1)

AnchorEntries(index_html) ==
    LET out == Unique(ScrapeLinks(index_html.anchors, 1), <<>>)
    IN [i \in 1..Len(out) |-> [title |-> out[i], page |-> out[i], zips |-> <<>>]]

\* find_vm_pages scraping the anchors whatever the structured data gave
find_vm_pages_AlwaysScrape(index_html) ==
    extract_from_next_data(index_html) \o AnchorEntries(index_html)

find_vm_pages(index_html) ==
    LET items == extract_from_next_data(index_html)
    IN IF items # <<>> THEN items ELSE AnchorEntries(index_html)

RECURSIVE ZipAnchors(_, _, _)
ZipAnchors(anchors, page_url, i) ==
    IF i > Len(anchors) THEN <<>>
    ELSE (IF EndsWith(Lower(anchors[i]), <<".zip">>) THEN <<UrlJoin(page_url, anchors[i])>> ELSE <<>>)
         \o ZipAnchors(anchors, page_url, i + 1)

find_zip_for_page(page_html, page_url) == ZipAnchors(page_html.anchors, page_url, 1)

\* --------------------------------------------------------- main: discovery

Html(script, data, anchors, headings) ==
    [script |-> script, data |-> data, anchors |-> anchors, headings |-> headings]

\* page_html = None, and the outcome of a fetch that raised
NoHtml == Html("none", JNull, <<>>, <<>>)
FetchFailed == Html("raised", JNull, <<>>, <<>>)

\* the body of the loop over discovered (one entry): first is the outcome of
\* the fetch made when the entry has no zips, second of the one made for the
\* title when no page was fetched; the result tells whether an item is
\* appended and which
EntryPageUrl(entry) ==
    IF ~HasScheme(entry.page) THEN UrlJoin(GALLERY_BASE, LStrip(entry.page, "/")) ELSE entry.page

HeadingTitle(page_html, page_url) ==
    IF page_html.script \in {"none", "raised"} \/ page_html.headings = <<>>
    THEN page_url
    ELSE Strip(page_html.headings[1], " ")

EntryZips(entry, page_url, first) ==
    IF entry.zips # <<>> THEN entry.zips
    ELSE IF first = FetchFailed THEN <<>>
    ELSE find_zip_for_page(first, page_url)

EntryTitle(entry, page_url, first, second) ==
    LET title_hint == entry.title
    IN IF title_hint # None THEN title_hint
       ELSE HeadingTitle(IF first # NoHtml THEN first ELSE second, page_url)

\* EntryKept for a loop that keeps only what a fetched page confirms
EntryKept_FetchedOnly(entry, first) ==
    /\ entry.page # <<>>
    /\ first \notin {FetchFailed, NoHtml}
    /\ find_zip_for_page(first, EntryPageUrl(entry)) # <<>>

EntryKept(entry, first) ==
    /\ entry.page # <<>>
    /\ first # FetchFailed
    /\ EntryZips(entry, EntryPageUrl(entry), first) # <<>>

EntryItem(entry, first, second) ==
    LET page_url == EntryPageUrl(entry)
    IN [title |-> EntryTitle(entry, page_url, first, second),
        page |-> page_url,
        zips |-> EntryZips(entry, page_url, first)]

NeedsFetch(entry) == entry.page # <<>> /\ entry.zips = <<>>

NeedsTitleFetch(entry, first) == EntryKept(entry, first) /\ entry.title = None /\ first = NoHtml

\* DedupeByPage comparing the pages as they are
RECURSIVE DedupeByPage_NoStrip(_, _)
DedupeByPage_NoStrip(its, acc) ==
    IF its = <<>> THEN acc
    ELSE DedupeByPage_NoStrip(Tail(its),
            IF \E j \in 1..Len(acc) : acc[j].page = Head(its).page
            THEN acc ELSE Append(acc, Head(its)))

\* the deduplication of main: first item of each page, trailing slashes stripped
RECURSIVE DedupeByPage(_, _)
DedupeByPage(its, acc) ==
    IF its = <<>> THEN acc
    ELSE DedupeByPage(Tail(its),
            IF \E j \in 1..Len(acc) : RStrip(acc[j].page, "/") = RStrip(Head(its).page, "/")
            THEN acc ELSE Append(acc, Head(its)))

\* ------------------------------------------------------ main: the selection

\* str.strip() and str.lower() of the line read, then int() of it
DigitVal(t) == CASE t = "0" -> 0 [] t = "1" -> 1 [] t = "2" -> 2 [] t = "3" -> 3
                 [] t = "4" -> 4 [] t = "5" -> 5 [] t = "6" -> 6 [] t = "7" -> 7
                 [] t = "8" -> 8 [] t = "9" -> 9 [] OTHER -> -1

AllDigits(s) == s # <<>> /\ \A j \in 1..Len(s) : DigitVal(s[j]) >= 0

RECURSIVE DigitsVal(_)
DigitsVal(s) == IF s = <<>> THEN 0 ELSE 10 * DigitsVal(SubSeq(s, 1, Len(s) - 1)) + DigitVal(s[Len(s)])

IsInt(s) == IF s # <<>> /\ Head(s) \in {"-", "+"} THEN AllDigits(Tail(s)) ELSE AllDigits(s)

ParseInt(s) == IF Head(s) = "-" THEN 0 - DigitsVal(Tail(s))
               ELSE IF Head(s) = "+" THEN DigitsVal(Tail(s))
               ELSE DigitsVal(s)

\* the position in a list of n elements that list[j] reads, 0-based j as in
\* the source; 0 when list[j] raises IndexError; positions count from 1
PyIndex(j, n) == IF j >= 0 /\ j < n THEN j + 1
                 ELSE IF j < 0 /\ j + n >= 0 THEN j + n + 1
                 ELSE 0

\* ------------------------------------------------------------ main: install

\* The documents directory is a function from the name of each *.utm package
\* directory in it to [cfg, name]: whether the package holds a config.plist
\* and the plist's name field.

NumTok(n) == <<"0", "1", "2", "3", "4", "5", "6", "7", "8", "9">>[n + 1]

\* str(n) of a number below 100
NumStr(n) == IF n < 10 THEN <<NumTok(n)>> ELSE <<NumTok(n \div 10), NumTok(n % 10)>>

PkgPath(vm_name) == vm_name \o <<".utm">>

\* os.path.splitext: the extension is the last token when it starts with a dot
SplitBase(path) == SubSeq(path, 1, Len(path) - 1)
SplitExt(path) == <<path[Len(path)]>>

RECURSIVE UniqueFrom(_, _, _)
UniqueFrom(exists, path, n) ==
    LET candidate == SplitBase(path) \o <<"-">> \o NumStr(n) \o SplitExt(path)
    IN IF candidate \notin exists THEN candidate ELSE UniqueFrom(exists, path, n + 1)

unique_path(exists, path) == IF path \notin exists THEN path ELSE UniqueFrom(exists, path, 2)

\* set_vm_display_name that leaves the plist as it is
set_vm_display_name_NoWrite(docs, utm_pkg_path, new_name) == docs

set_vm_display_name(docs, utm_pkg_path, new_name) ==
    IF ~docs[utm_pkg_path].cfg THEN docs
    ELSE [docs EXCEPT ![utm_pkg_path].name = new_name]

\* zipfile.extractall into the directory: the archive's packages are written
\* over what is there, files the archive lacks stay
ExtractAll(docs, zip) ==
    [p \in DOMAIN docs \cup DOMAIN zip |->
        IF p \notin DOMAIN zip THEN docs[p]
        ELSE IF p \notin DOMAIN docs \/ zip[p].cfg THEN zip[p]
        ELSE docs[p]]

\* the diff taken as the whole listing after the extraction
Created_All(before_, after_) == after_

Created(before_, after_) == after_ \ before_

VmName(base, copies, n) == IF copies = 1 THEN base ELSE base \o <<"-">> \o NumStr(n)

Move(docs, src, dst) == [p \in (DOMAIN docs \ {src}) \cup {dst} |-> IF p = dst THEN docs[src] ELSE docs[p]]

CopyTree(docs, src, dst) == [p \in DOMAIN docs \cup {dst} |-> IF p = dst THEN docs[src] ELSE docs[p]]

\* one round of the loop over the copies: the directory after it
PlaceCopy(docs, n, src_pkg_, first_pkg, dst_pkg) ==
    IF n = 1
    THEN IF src_pkg_ # dst_pkg THEN Move(docs, src_pkg_, dst_pkg) ELSE docs
    ELSE CopyTree(docs, first_pkg, dst_pkg)

\* ------------------------------------------------------------------ inputs

MaxAnchors == 2
MaxObjs == 2
MaxCopies == 3

OTHER_HOST == <<"https:", "/", "/", "other.example", "/">>

\* href values of the anchors of an index page
IndexHrefs ==
    { <<"/", "gallery", "/", "a", ".html">>,
      <<"/", "gallery", "/", "b", "/">>,
      <<"/", "gallery", "/", "b">>,
      <<"b", "/">>,
      <<"a", ".html">>,
      <<"b">>,
      <<"/", "a", ".html">>,
      OTHER_HOST \o <<"x", ".zip">>,
      OTHER_HOST \o <<"gallery", "/", "a", ".html">> }

SeqsUpTo(S, n) == UNION { [1..m -> S] : m \in 0..n }

\* objects of the hydration data
Obj(k, c) == JDict(k, c)

JsonObjs ==
    { Obj(<<"path", "downloads">>, <<JStr(<<"a">>), JList(<<JStr(<<"x", ".zip">>)>>)>>),
      Obj(<<"path", "downloads">>, <<JStr(<<"a", "/">>), JList(<<JStr(<<"y", ".zip">>), JStr(<<"x", ".zip">>)>>)>>),
      Obj(<<"url", "file", "title">>,
          <<JStr(GALLERY_BASE \o <<"a">>), JStr(OTHER_HOST \o <<"x", ".zip">>), JStr(<<"Ubuntu">>)>>),
      Obj(<<"slug", "files", "name">>,
          <<JStr(<<"/", "b">>),
            JDict(<<"mac", "doc">>, <<JStr(<<"x", ".ZIP">>), JStr(<<"readme", ".txt">>)>>),
            JStr(<<"Beta">>)>>),
      Obj(<<"path", "downloads">>, <<JStr(OTHER_HOST \o <<"a">>), JList(<<JStr(<<"x", ".zip">>)>>)>>),
      Obj(<<"path", "downloads">>, <<JNum(5), JList(<<JStr(<<"x", ".zip">>)>>)>>),
      Obj(<<"path", "downloads", "directLink">>,
          <<JStr(<<"a">>), JList(<<JStr(<<"readme", ".txt">>)>>), JStr(<<"y", ".zip">>)>>),
      Obj(<<"path", "downloads">>,
          <<JStr(<<"b">>),
            JList(<<Obj(<<"path", "file">>, <<JStr(<<"a">>), JStr(<<"y", ".zip">>)>>),
                    JStr(<<"x", ".zip">>)>>)>>),
      Obj(<<"title", "downloads">>, <<JStr(<<"NoSlug">>), JList(<<JStr(<<"x", ".zip">>)>>)>>),
      Obj(<<"path", "downloads">>, <<JStr(<<"a">>), JList(<<>>)>>),
      Obj(<<"path", "url", "downloadUrl">>, <<JStr(<<>>), JStr(<<"b", "/">>), JStr(<<"x", ".zip">>)>>),
      Obj(<<"path", "file">>, <<JStr(<<"httpx">>), JStr(<<"x", ".zip">>)>>),
      Obj(<<"path", "downloads">>,
          <<JStr(<<"a">>), JList(<<JStr(<<"x", ".zip">>), JStr(GALLERY_BASE \o <<"x", ".zip">>)>>)>>) }

JsonDoc(objs) == JDict(<<"props">>, <<JDict(<<"buildId", "items">>, <<JStr(<<"b">>), JList(objs)>>)>>)

IndexPages ==
    { Html("json", JsonDoc(objs), anchors, <<>>) :
        objs \in SeqsUpTo(JsonObjs, MaxObjs),
        anchors \in {<<>>, << <<"/", "gallery", "/", "a", ".html">> >>} }
    \cup
    { Html(script, JNull, anchors, <<>>) :
        script \in {"absent", "empty", "malformed"},
        anchors \in SeqsUpTo(IndexHrefs, MaxAnchors) }

\* what a detail page can be
DetailPages ==
    { Html("absent", JNull, << <<"x", ".zip">> >>, << <<" ", "Ubuntu", " ">> >>),
      Html("absent", JNull, << OTHER_HOST \o <<"x", ".ZIP">>, <<"x", ".zip">> >>, <<>>),
      Html("absent", JNull, << <<"about", ".html">> >>, << <<"Ubuntu">> >>) }

\* lines the operator can type
InputLines ==
    { <<"q">>, <<" ", "Q">>, <<"1">>, <<" ", "2", " ">>, <<"3">>, <<"0">>,
      <<"-", "1">>, <<"-", "3">>, <<"x">>, <<>> }

Pkg(cfg, name) == [cfg |-> cfg, name |-> name]

\* what the documents directory holds before the run
PriorDocs ==
    { <<>>,
      [p \in {<<"LAB", ".utm">>} |-> Pkg(TRUE, <<"Prev">>)],
      [p \in {<<"LAB", ".utm">>, <<"LAB", "-", "2", ".utm">>} |-> Pkg(TRUE, <<"Prev">>)],
      [p \in {<<"Ubuntu", ".utm">>, <<"LAB", "-", "1", ".utm">>} |-> Pkg(FALSE, <<>>)] }

\* the packages an archive holds
Archives ==
    { <<>>,
      [p \in {<<"Ubuntu", ".utm">>} |-> Pkg(TRUE, <<"Ubuntu">>)],
      [p \in {<<"Ubuntu", ".utm">>} |-> Pkg(FALSE, <<>>)],
      [p \in {<<"LAB", ".utm">>} |-> Pkg(TRUE, <<"Old">>)],
      [p \in {<<"Ubuntu", ".utm">>, <<"Debian", ".utm">>} |-> Pkg(TRUE, <<"Linux">>)] }

\* --name: absent, empty, or given
ArgNames == { None, <<>>, <<"LAB">> }

\* what rand_name and the clock can produce
GenNames == { <<"amber", "-", "comet", "-", "20260101", "-", "000000">>,
              <<"zenith", "-", "zephyr", "-", "20260101", "-", "000001">> }

\* ------------------------------------------------------------------- state

VARIABLES pc, exitCode, msg, args, idx_html, structured, discovered, idx, fetchLog, items,
          deduped, sel, zipurl, dirs, docs, extracted, before, after, created,
          base_name, src_pkg, installs, copy, fsOps

vars == <<pc, exitCode, msg, args, idx_html, structured, discovered, idx, fetchLog, items,
          deduped, sel, zipurl, dirs, docs, extracted, before, after, created,
          base_name, src_pkg, installs, copy, fsOps>>

discoveryVars == <<idx_html, structured, discovered, idx, fetchLog, items, deduped>>
promptVars == <<sel, zipurl, dirs>>
installVars == <<docs, extracted, before, after, created, base_name, src_pkg, installs, copy, fsOps>>

\* the run's default arguments: no --name, one copy
DefaultArgs == [name |-> None, copies |-> 1]

NotInstalled ==
    /\ docs = <<>>
    /\ extracted = <<>>
    /\ before = {}
    /\ after = {}
    /\ created = {}
    /\ base_name = None
    /\ src_pkg = None
    /\ installs = <<>>
    /\ copy = 1
    /\ fsOps = <<>>

Init ==
    /\ pc = "start"
    /\ exitCode = -1
    /\ msg = ""
    /\ args = DefaultArgs
    /\ idx_html = NoHtml
    /\ structured = <<>>
    /\ discovered = <<>>
    /\ idx = 1
    /\ fetchLog = <<>>
    /\ items = <<>>
    /\ deduped = <<>>
    /\ sel = None
    /\ zipurl = None
    /\ dirs = {}
    /\ NotInstalled

\* an exception nothing catches: traceback, exit status 1
Crash == pc' = "crashed" /\ exitCode' = 1 /\ msg' = "Traceback"

Exit(code, text) == pc' = "exited" /\ exitCode' = code /\ msg' = text

\* ----------------------------------------------------------------- actions

FetchIndex ==
    /\ pc = "start"
    /\ \E html \in IndexPages :
        /\ idx_html' = html
        /\ structured' = extract_from_next_data(html)
        /\ discovered' = find_vm_pages(html)
    /\ pc' = "discover"
    /\ UNCHANGED <<exitCode, msg, args, idx, fetchLog, items, deduped>>
    /\ UNCHANGED <<promptVars, installVars>>

FetchIndexFails ==
    /\ pc = "start"
    /\ Crash
    /\ UNCHANGED <<args, discoveryVars, promptVars, installVars>>

ProcessEntry ==
    /\ pc = "discover"
    /\ idx <= Len(discovered)
    /\ LET entry == discovered[idx]
       IN \E first \in (IF NeedsFetch(entry) THEN DetailPages \cup {FetchFailed} ELSE {NoHtml}) :
          \E second \in (IF NeedsTitleFetch(entry, first) THEN DetailPages \cup {FetchFailed} ELSE {NoHtml}) :
            /\ fetchLog' = Append(fetchLog, first)
            /\ items' = IF EntryKept(entry, first)
                        THEN Append(items, EntryItem(entry, first, second))
                        ELSE items
    /\ idx' = idx + 1
    /\ UNCHANGED <<pc, exitCode, msg, args, idx_html, structured, discovered, deduped>>
    /\ UNCHANGED <<promptVars, installVars>>

Present ==
    /\ pc = "discover"
    /\ idx > Len(discovered)
    /\ IF items = <<>>
       THEN Exit(1, "No downloadable VMs found.") /\ UNCHANGED deduped
       ELSE /\ deduped' = DedupeByPage(items, <<>>)
            /\ IF deduped' = <<>>
               THEN Exit(1, "No downloadable VMs found.")
               ELSE pc' = "prompt" /\ msg' = "Available VMs:" /\ UNCHANGED exitCode
    /\ UNCHANGED <<args, idx_html, structured, discovered, idx, fetchLog, items>>
    /\ UNCHANGED <<promptVars, installVars>>

\* input(), the choice, and what precedes the download
Select ==
    /\ pc = "prompt"
    /\ \E line \in InputLines :
        /\ sel' = Lower(Strip(line, " "))
        /\ IF sel' = <<"q">>
           THEN Exit(0, "Available VMs:") /\ UNCHANGED <<zipurl, dirs>>
           ELSE IF ~IsInt(sel') \/ PyIndex(ParseInt(sel') - 1, Len(deduped)) = 0
           THEN Crash /\ UNCHANGED <<zipurl, dirs>>
           ELSE /\ zipurl' = deduped[PyIndex(ParseInt(sel') - 1, Len(deduped))].zips[1]
                /\ dirs' = dirs \cup {"downloads"}
                /\ pc' = "download"
                /\ msg' = "Downloading"
                /\ UNCHANGED exitCode
    /\ UNCHANGED <<args, discoveryVars, installVars>>

Download ==
    /\ pc = "download"
    /\ \/ pc' = "downloaded" /\ UNCHANGED <<exitCode, msg>>
       \/ Crash
    /\ UNCHANGED <<args, discoveryVars, promptVars, installVars>>

Next == FetchIndex \/ FetchIndexFails \/ ProcessEntry \/ Present \/ Select \/ Download

Spec == Init /\ [][Next]_vars

\* --------------------------------------------------- the install pipeline

\* a run that has downloaded the archive of its one discovered entry
InstallStartPage ==
    Html("json",
         JsonDoc(<<Obj(<<"path", "downloads">>, <<JStr(<<"a">>), JList(<<JStr(<<"x", ".zip">>)>>)>>)>>),
         <<>>, <<>>)

InitInstall ==
    /\ pc = "downloaded"
    /\ exitCode = -1
    /\ msg = "Downloading"
    /\ args \in [name : ArgNames, copies : 0..MaxCopies]
    /\ idx_html = InstallStartPage
    /\ structured = extract_from_next_data(InstallStartPage)
    /\ discovered = find_vm_pages(InstallStartPage)
    /\ idx = Len(discovered) + 1
    /\ fetchLog = [j \in 1..Len(discovered) |-> NoHtml]
    /\ items = [j \in 1..Len(discovered) |-> EntryItem(discovered[j], NoHtml, NoHtml)]
    /\ deduped = DedupeByPage(items, <<>>)
    /\ sel = <<"1">>
    /\ zipurl = deduped[1].zips[1]
    /\ dirs = {"downloads"}
    /\ NotInstalled

\* makedirs, the listing before, the extraction, the listing after, the diff
\* and the choice of the names
ExtractArchive ==
    /\ pc = "downloaded"
    /\ dirs' = dirs \cup {"utm_docs"}
    /\ \E prior \in PriorDocs, zip \in Archives :
        /\ before' = DOMAIN prior
        /\ docs' = ExtractAll(prior, zip)
    /\ extracted' = docs'
    /\ after' = DOMAIN docs'
    /\ created' = Created(before', after')
    /\ IF created' = {}
       THEN /\ Exit(1, "No .utm package found after extraction.")
            /\ UNCHANGED <<base_name, src_pkg>>
       ELSE /\ base_name' \in (IF args.name # None /\ args.name # <<>> THEN {args.name} ELSE GenNames)
            /\ src_pkg' \in created'
            /\ pc' = "install"
            /\ UNCHANGED <<exitCode, msg>>
    /\ UNCHANGED <<args, discoveryVars, sel, zipurl, installs, copy, fsOps>>

ExtractFails ==
    /\ pc = "downloaded"
    /\ dirs' = dirs \cup {"utm_docs"}
    /\ Crash
    /\ UNCHANGED <<args, discoveryVars, sel, zipurl, installVars>>

InstallCopy ==
    /\ pc = "install"
    /\ copy <= args.copies
    /\ LET vm_name == VmName(base_name, args.copies, copy)
           dst_pkg == unique_path(DOMAIN docs, PkgPath(vm_name))
           first_pkg == IF installs = <<>> THEN None ELSE installs[1].path
           placed == PlaceCopy(docs, copy, src_pkg, first_pkg, dst_pkg)
       IN /\ docs' = set_vm_display_name(placed, dst_pkg, vm_name)
          /\ installs' = Append(installs, [path |-> dst_pkg, name |-> vm_name])
          /\ fsOps' = fsOps
                \o (IF placed # docs THEN <<[op |-> IF copy = 1 THEN "move" ELSE "copytree", path |-> dst_pkg]>> ELSE <<>>)
                \o (IF placed[dst_pkg].cfg THEN <<[op |-> "set_name", path |-> dst_pkg]>> ELSE <<>>)
    /\ copy' = copy + 1
    /\ UNCHANGED <<pc, exitCode, msg, args, discoveryVars, promptVars>>
    /\ UNCHANGED <<extracted, before, after, created, base_name, src_pkg>>

Finish ==
    /\ pc = "install"
    /\ copy > args.copies
    /\ pc' = "done"
    /\ exitCode' = 0
    /\ msg' = "Done. Restart UTM to see them."
    /\ UNCHANGED <<args, discoveryVars, promptVars, installVars>>

NextInstall == ExtractArchive \/ ExtractFails \/ InstallCopy \/ Finish

SpecInstall == InitInstall /\ [][NextInstall]_vars

\* ------------------------------------------------------------ properties

Fetched == idx_html # NoHtml

Listed == pc \in {"prompt", "download", "downloaded"} \/ sel # None

NormPage(e) == RStrip(e.page, "/")

\* the first item of items with the normalized page of e
FirstOfPage(e) == items[CHOOSE m \in 1..Len(items) :
                          /\ NormPage(items[m]) = NormPage(e)
                          /\ \A l \in 1..(m - 1) : NormPage(items[l]) # NormPage(e)]

\* C1: in the list shown to the operator every page starts with the gallery
\* base, no two entries share a page once trailing slashes are stripped, and
\* of the items sharing a normalized page the first discovered is the one kept
C1_ListedPagesUnique ==
    Listed =>
        /\ deduped # <<>>
        /\ \A a \in 1..Len(deduped) : StartsWith(deduped[a].page, GALLERY_BASE)
        /\ \A a, b \in 1..Len(deduped) : a # b => NormPage(deduped[a]) # NormPage(deduped[b])
        /\ \A m \in 1..Len(items) : \E a \in 1..Len(deduped) : deduped[a] = FirstOfPage(items[m])
        /\ \A a \in 1..Len(deduped) : deduped[a] = FirstOfPage(deduped[a])

C1_Witness ==
    /\ pc = "prompt"
    /\ Len(deduped) < Len(items)
    /\ \E m \in 2..Len(items) : items[m].page # items[1].page /\ NormPage(items[m]) = NormPage(items[1])

\* the dict nodes of a JSON tree in the order visit reaches them
RECURSIVE DictsOf(_)
RECURSIVE DictsOfAll(_, _)
DictsOf(node) ==
    IF node.t = "dict" THEN <<node>> \o DictsOfAll(node.c, 1)
    ELSE IF node.t = "list" THEN DictsOfAll(node.c, 1)
    ELSE <<>>

DictsOfAll(c, n) == IF n > Len(c) THEN <<>> ELSE DictsOf(c[n]) \o DictsOfAll(c, n + 1)

Contributes(node) ==
    /\ Truthy(NodeSlug(node))
    /\ NodeZips(node) # <<>>
    /\ NodePage(NodeSlug(node)) # None
    /\ StartsWith(NodePage(NodeSlug(node)), GALLERY_BASE)

NodeNorm(node) == RStrip(NodePage(NodeSlug(node)), "/")

RECURSIVE LinksFor(_, _, _)
LinksFor(ds, norm, n) ==
    IF n > Len(ds) THEN <<>>
    ELSE (IF Contributes(ds[n]) /\ NodeNorm(ds[n]) = norm THEN NodeZips(ds[n]) ELSE <<>>)
         \o LinksFor(ds, norm, n + 1)

FirstAt(s, x) == CHOOSE n \in 1..Len(s) : s[n] = x /\ \A l \in 1..(n - 1) : s[l] # x

\* C2: two objects of the hydration data with the same page (trailing slash
\* stripped) and different archive links give one entry for the page, whose
\* links are all the links of the page's objects, resolved against the entry's
\* page, each once, in the order the traversal first met them
C2_MergedLinks ==
    (Fetched /\ idx_html.script = "json") =>
        LET ds == DictsOf(idx_html.data)
        IN \A a, b \in 1..Len(ds) :
            (/\ a < b
             /\ Contributes(ds[a]) /\ Contributes(ds[b])
             /\ NodeNorm(ds[a]) = NodeNorm(ds[b])
             /\ NodeZips(ds[a]) # NodeZips(ds[b]))
            => LET es == SelectSeq(structured, LAMBDA e : NormPage(e) = NodeNorm(ds[a]))
                   raw == LinksFor(ds, NodeNorm(ds[a]), 1)
               IN /\ Len(es) = 1
                  /\ LET z == es[1].zips
                         seen == [n \in 1..Len(raw) |-> ResolveLink(es[1].page, raw[n])]
                     IN /\ {z[n] : n \in 1..Len(z)} = {seen[n] : n \in 1..Len(seen)}
                        /\ \A m, n \in 1..Len(z) : m # n => z[m] # z[n]
                        /\ \A m, n \in 1..Len(z) : m < n => FirstAt(seen, z[m]) < FirstAt(seen, z[n])

C2_Witness ==
    /\ Fetched /\ idx_html.script = "json"
    /\ Len(structured) = 1
    /\ Len(structured[1].zips) = 2
    /\ LET ds == DictsOf(idx_html.data)
       IN \E a, b \in 1..Len(ds) :
            /\ a < b
            /\ Contributes(ds[a]) /\ Contributes(ds[b])
            /\ NodeNorm(ds[a]) = NodeNorm(ds[b])
            /\ NodePage(NodeSlug(ds[a])) # NodePage(NodeSlug(ds[b]))
            /\ Len(NodeZips(ds[a])) = 1 /\ Len(NodeZips(ds[b])) = 2

\* C3: without a parsable structured-data element the structured extraction
\* is empty and the run goes on; the anchor scraper's result is used exactly
\* when the structured extraction is empty, else the structured result as is
C3_FallbackIffEmpty ==
    Fetched =>
        /\ idx_html.script \in {"absent", "empty", "malformed"} => structured = <<>>
        /\ pc = "crashed" => Listed
        /\ structured = <<>> => discovered = AnchorEntries(idx_html)
        /\ structured # <<>> => discovered = structured

C3_Witness ==
    /\ Fetched
    /\ idx_html.script = "malformed"
    /\ structured = <<>>
    /\ discovered # <<>>
    /\ pc = "discover"

FallbackUsed == Fetched /\ structured = <<>>

\* the filter of the claim: the marker, or a path ending in the HTML
\* extension, or a path ending in a slash
ClaimKeepsHref(href) ==
    \/ Contains(href, <<"/", "gallery", "/">>)
    \/ EndsWith(href, <<".html">>)
    \/ EndsWith(href, <<"/">>)

ClaimedLinks(anchors) ==
    LET hs == SelectSeq(anchors, LAMBDA h : ClaimKeepsHref(h) /\ StartsWith(UrlJoin(GALLERY_BASE, h), GALLERY_BASE))
    IN Unique([n \in 1..Len(hs) |-> UrlJoin(GALLERY_BASE, hs[n])], <<>>)

\* C4: the anchor fallback returns, each once and in first-seen order, the
\* hyperlinks that carry the gallery marker or end in the HTML extension or in
\* a slash and whose absolute form starts with the gallery base, each as an
\* entry titled by its URL with no archive links
C4_FallbackKeepsClaimedLinks ==
    FallbackUsed =>
        LET want == ClaimedLinks(idx_html.anchors)
        IN discovered = [n \in 1..Len(want) |-> [title |-> want[n], page |-> want[n], zips |-> <<>>]]

HasZipAnchor(page_html) ==
    \E n \in 1..Len(page_html.anchors) : EndsWith(Lower(page_html.anchors[n]), <<".zip">>)

\* entry j of discovered ends with at least one archive link
Survives(j) ==
    \/ discovered[j].zips # <<>>
    \/ /\ fetchLog[j] \notin {FetchFailed, NoHtml}
       /\ HasZipAnchor(fetchLog[j])

\* C5: an entry is in the list built by the discovery loop exactly when it
\* carried links or its page was fetched and has an archive anchor; a failed
\* fetch drops that entry only, all entries are processed, and the run exits
\* 1 at the end of discovery exactly when nothing survived
C5_SurvivorsOnly ==
    Fetched =>
        /\ Len(fetchLog) = idx - 1
        /\ \A j \in 1..Len(fetchLog) :
              (\E m \in 1..Len(items) : items[m].page = discovered[j].page) <=> Survives(j)
        /\ \A m \in 1..Len(items) : items[m].zips # <<>>
        /\ pc # "discover" => Len(fetchLog) = Len(discovered)
        /\ pc = "crashed" => Listed
        /\ (pc # "discover" /\ items = <<>>) <=> (pc = "exited" /\ exitCode = 1)
        /\ (pc # "discover" /\ items = <<>>) => msg = "No downloadable VMs found."

C5_Witness ==
    /\ pc = "prompt"
    /\ Len(fetchLog) = 2
    /\ fetchLog[1] = FetchFailed
    /\ Len(items) = 1
    /\ items[1].page = discovered[2].page

\* C9: an entry of the anchor fallback is listed under the first heading of
\* its detail page when the page has one, under its page URL otherwise
C9_FallbackTitleFromHeading ==
    (Listed /\ FallbackUsed) =>
        \A a \in 1..Len(deduped) : \A j \in 1..Len(discovered) :
            discovered[j].page = deduped[a].page =>
                deduped[a].title = IF fetchLog[j] # FetchFailed /\ fetchLog[j].headings # <<>>
                                   THEN Strip(fetchLog[j].headings[1], " ")
                                   ELSE deduped[a].page

DownloadStarted == zipurl # None

\* C10: a download starts only for a number k between 1 and the length of the
\* list, and then of the first archive link of entry k; q exits 0 with nothing
\* downloaded and nothing created; any other input downloads nothing
C10_OnlyListedNumbersDownload ==
    /\ DownloadStarted =>
          /\ IsInt(sel)
          /\ ParseInt(sel) \in 1..Len(deduped)
          /\ zipurl = deduped[ParseInt(sel)].zips[1]
    /\ sel = <<"q">> => pc = "exited" /\ exitCode = 0 /\ ~DownloadStarted /\ dirs = {}
    /\ (sel # None /\ ~(IsInt(sel) /\ ParseInt(sel) \in 1..Len(deduped))) => ~DownloadStarted

NameGiven == args.name # None /\ args.name # <<>>

\* C6: N >= 1 copies give N install records named from one base (--name, else
\* one generated name): the base itself for N = 1, base-i for N > 1; at the
\* end every installed package with a metadata file has that name in it
C6_CopiesNamedFromOneBase ==
    (pc = "done" /\ args.copies >= 1) =>
        /\ Len(installs) = args.copies
        /\ IF NameGiven THEN base_name = args.name ELSE base_name \in GenNames
        /\ \A n \in 1..Len(installs) :
            /\ installs[n].name = IF args.copies = 1 THEN base_name
                                  ELSE base_name \o <<"-">> \o NumStr(n)
            /\ installs[n].path \in DOMAIN docs
            /\ docs[installs[n].path].cfg => docs[installs[n].path].name = installs[n].name
        /\ \A m, n \in 1..Len(installs) : m # n => installs[m].path # installs[n].path

C6_Witness ==
    /\ pc = "done"
    /\ args.copies = 3
    /\ ~NameGiven
    /\ Len(installs) = 3
    /\ \A n \in 1..3 : docs[installs[n].path].cfg /\ docs[installs[n].path].name = base_name \o <<"-">> \o NumStr(n)

\* C7: with --name X and one copy the package is installed as X.utm whatever
\* the documents directory held and whatever the archive's package is called,
\* and an extracted package already at X.utm is left where it is
C7_InstalledAtGivenName ==
    /\ (NameGiven /\ args.copies = 1 /\ src_pkg = PkgPath(args.name)) =>
          /\ \A n \in 1..Len(fsOps) : fsOps[n].op # "move"
          /\ \A n \in 1..Len(installs) : installs[n].path = src_pkg
    /\ (pc = "done" /\ NameGiven /\ args.copies = 1) =>
          /\ installs[1].name = args.name
          /\ installs[1].path = PkgPath(args.name)

\* C8: when the listing after the extraction holds no package the listing
\* before lacked, the run exits non-zero having moved, copied, renamed and
\* edited nothing: the directory is as the extraction left it
C8_NoPackageNoInstall ==
    ("utm_docs" \in dirs /\ pc # "crashed" /\ after \ before = {}) =>
        /\ pc = "exited"
        /\ exitCode # 0
        /\ msg = "No .utm package found after extraction."
        /\ fsOps = <<>>
        /\ installs = <<>>
        /\ docs = extracted

C8_Witness ==
    /\ pc = "exited"
    /\ exitCode = 1
    /\ after # {}
    /\ after \ before = {}
    /\ \E p \in after : docs[p].name = <<"Old">>

====
